---- MODULE Spec2Model ----
(***************************************************************************)
(* PullRequestStore (app/src/lib/stores/pull-request-store.ts).            *)
(*                                                                         *)
(* The store keeps two Dexie tables, db.pullRequests and                   *)
(* db.pullRequestStatus, and offers two asynchronous operations:           *)
(*   updatePullRequests(repository, account)   ("refresh")                 *)
(*   getPullRequests(repository)               ("currentView")             *)
(* Every `await` of the source is a point where another call may run, so   *)
(* a call is modelled as a process that advances one awaited step at a     *)
(* time.                                                                   *)
(***************************************************************************)
EXTENDS Integers, Sequences, FiniteSets, TLC

(* ------------------------------ bounds -------------------------------- *)

\* Largest primary key the pullRequests table hands out in a run.
MaxId == 2

\* The calls that may be in flight at the same time: two slots, and a new
\* call takes the lowest free one.
Procs == {1, 2}

\* Repositories known to the remote source.  "A" and "B" are in the local
\* repositories table from the start, "F" (a fork) is not.
RepoNames == {"A", "B", "F"}
Fork == "F"

\* Remote pull-request numbers.
Numbers == {1, 2}

\* What a remote pull request may look like besides its number: a branch
\* of the repository itself at commit "s1", or a branch of the fork at
\* commit "s2".
Variants ==
  { [title |-> "t1", sha |-> "s1", fork |-> FALSE],
    [title |-> "t2", sha |-> "s2", fork |-> TRUE] }

\* What api.fetchCombinedRefStatus may answer.
CombinedStatuses ==
  { [state |-> "success", total_count |-> 2],
    [state |-> "failure", total_count |-> 1] }

(* ---------------------------- values ---------------------------------- *)

\* repository.dbID of a GitHubRepository that was never inserted (null).
NoID == 0

\* JavaScript null, for an absent status or an unresolved repository.
NULL == [null |-> TRUE]

VARIABLES
  pullRequests,          \* db.pullRequests: set of IPullRequest rows
  pullRequestStatus,     \* db.pullRequestStatus: rows in primary-key order
  nextId,                \* key generator of db.pullRequests ('++id')
  repositories,          \* repositoriesStore: repository name -> dbID
  call,                  \* the operation each process runs, or "none"
  pc,                    \* where each call stands
  repository,            \* the call's `repository` argument
  prsFrmoAPI,            \* updatePullRequests: what fetchPullRequests answered
  listed,                \* getPullRequests: `pullRequests` (the rows the query found)
  builtPullRequests,     \* getPullRequests: `builtPullRequests`
  prs,                   \* updatePullRequests: `prs`
  pullRequestsStatuses,  \* updatePullRequests: `pullRequestsStatuses`
  returned,              \* what a call that is done returned
  error,                 \* what a failed call threw
  cycle,                 \* history: what the refresh in flight saw
  prev                   \* history: the last refresh that returned

vars ==
  << pullRequests, pullRequestStatus, nextId, repositories, call, pc,
     repository, prsFrmoAPI, listed, builtPullRequests, prs,
     pullRequestsStatuses, returned, error, cycle, prev >>

db == << pullRequests, pullRequestStatus, nextId, repositories >>

history == << cycle, prev >>

(* ------------------------- helper operators --------------------------- *)

Range(s) == { s[i] : i \in 1..Len(s) }

MaxOf(S) == CHOOSE x \in S : \A y \in S : y <= x

\* Sequences over S without repetition, of every length.
RECURSIVE Perms(_)
Perms(S) ==
  IF S = {} THEN { <<>> }
  ELSE UNION { { <<x>> \o t : t \in Perms(S \ {x}) } : x \in S }

\* An IAPIPullRequest of `name`: the remote source lists the pull requests
\* whose base is the repository asked for; the head may be a fork.
APIPullRequest(name, n) ==
  { [number |-> n, title |-> v.title,
     head |-> [sha |-> v.sha, repo |-> IF v.fork THEN Fork ELSE name],
     base |-> [repo |-> name]] : v \in Variants }

\* The lists api.fetchPullRequests(owner, name, 'open') may return: any
\* open set, numbers unique within the repository, in any order.
RECURSIVE APIListsOver(_, _)
APIListsOver(name, order) ==
  IF order = <<>> THEN { <<>> }
  ELSE { <<x>> \o t : x \in APIPullRequest(name, Head(order)),
                      t \in APIListsOver(name, Tail(order)) }

APIPullRequestLists(name) ==
  UNION { APIListsOver(name, order) :
            order \in UNION { Perms(S) : S \in SUBSET Numbers } }

(* ------------------------ repositoriesStore --------------------------- *)

\* A GitHubRepository object as the caller holds it.
GitHubRepository(name) == [name |-> name, dbID |-> repositories[name]]

\* repositoriesStore.findGitHubRepositoryByID
findGitHubRepositoryByID(id) ==
  IF id # NoID /\ \E n \in RepoNames : repositories[n] = id
  THEN LET n == CHOOSE n \in RepoNames : repositories[n] = id
       IN  [name |-> n, dbID |-> id]
  ELSE NULL

\* repositoriesStore.findOrPutGitHubRepository, as the table it leaves.
findOrPutGitHubRepository(reps, name) ==
  IF reps[name] # NoID THEN reps
  ELSE [reps EXCEPT ![name] = MaxOf({ reps[n] : n \in RepoNames }) + 1]

\* The repositories table after the loop of writePullRequests.
RECURSIVE PutAll(_, _)
PutAll(reps, list) ==
  IF list = <<>> THEN reps
  ELSE PutAll(findOrPutGitHubRepository(
                findOrPutGitHubRepository(reps, Head(list).head.repo),
                Head(list).base.repo),
              Tail(list))

(* --------------------------- db.pullRequests -------------------------- *)

\* Mutant: the base repository id is taken from the head repository.
insertablePRBaseFromHead(pr, reps) ==
  [ number |-> pr.number,
    title  |-> pr.title,
    head   |-> [sha |-> pr.head.sha, repoId |-> reps[pr.head.repo]],
    base   |-> [repoId |-> reps[pr.head.repo]] ]

\* One element of `insertablePRs` (writePullRequests, the push in the loop).
insertablePR(pr, reps) ==
  [ number |-> pr.number,
    title  |-> pr.title,
    head   |-> [sha |-> pr.head.sha, repoId |-> reps[pr.head.repo]],
    base   |-> [repoId |-> reps[pr.base.repo]] ]

\* Mutant: clear() removes nothing.
clearNothing(table) == table

\* table.clear(): every row of the table goes, whatever its repository.
clear(table) == {}

\* Mutant: the key generator starts again at 1 after a clear, so the ids
\* of deleted rows are given again.
bulkAddFromOne(table, rows, next) ==
  table \cup
    { [ id     |-> Cardinality(table) + i,
        number |-> rows[i].number,
        title  |-> rows[i].title,
        head   |-> rows[i].head,
        base   |-> rows[i].base ] : i \in 1..Len(rows) }

\* table.bulkAdd(rows): '++id' gives each row the next primary key.
bulkAdd(table, rows, next) ==
  table \cup
    { [ id     |-> next + i - 1,
        number |-> rows[i].number,
        title  |-> rows[i].title,
        head   |-> rows[i].head,
        base   |-> rows[i].base ] : i \in 1..Len(rows) }

\* Mutant: the transaction adds the rows without clearing the table.
replaceAllWithoutClear(table, list, reps, next) ==
  bulkAdd(table, [i \in 1..Len(list) |-> insertablePR(list[i], reps)], next)

\* The transaction of writePullRequests: clear, then bulkAdd.
replaceAll(table, list, reps, next) ==
  bulkAdd(clear(table),
          [i \in 1..Len(list) |-> insertablePR(list[i], reps)],
          next)

\* Mutant: .reverse() is missing, the lowest number comes first.
firstOfAscending(rows) ==
  CHOOSE r \in rows :
    \A o \in rows : r.number < o.number \/ (o.number = r.number /\ r.id <= o.id)

\* The row .reverse().sortBy('number') puts first: sortBy sorts stably by
\* number over the primary-key order and reverse() turns the outcome round.
firstOf(rows) ==
  CHOOSE r \in rows :
    \A o \in rows : o.number < r.number \/ (o.number = r.number /\ o.id <= r.id)

RECURSIVE reverseSortByNumber(_)
reverseSortByNumber(rows) ==
  IF rows = {} THEN <<>>
  ELSE <<firstOf(rows)>> \o reverseSortByNumber(rows \ {firstOf(rows)})

\* Mutant: the query goes by the repository of the head.
whereHeadRepoId(table, id) ==
  reverseSortByNumber({ r \in table : r.head.repoId = id })

\* db.pullRequests.where('base.repoId').equals(id).reverse().sortBy('number')
whereBaseRepoId(table, id) ==
  reverseSortByNumber({ r \in table : r.base.repoId = id })

(* ------------------------ db.pullRequestStatus ------------------------ *)

\* Mutant: the lookup goes by sha alone.
whereSha(table, sha, pullRequestId) ==
  SelectSeq(table, LAMBDA r : r.sha = sha)

\* .where('[sha+pullRequestId]').equals([sha, pullRequestId]): the rows
\* under the key, in index order (equal keys follow the primary key, that
\* is the order in which they were added).
whereShaPullRequestId(table, sha, pullRequestId) ==
  SelectSeq(table, LAMBDA r : r.sha = sha /\ r.pullRequestId = pullRequestId)

\* getPullRequestStatusById: .limit(1).first(), null when nothing matches.
getPullRequestStatusById(table, sha, pullRequestId) ==
  LET result == whereShaPullRequestId(table, sha, pullRequestId)
  IN  IF result = <<>> THEN NULL
      ELSE [ state      |-> result[1].state,
             totalCount |-> result[1].totalCount,
             sha        |-> result[1].sha ]

(* ---------------------------- the view -------------------------------- *)

\* `builtPR` of getPullRequests for one stored row.
builtPR(pr) ==
  [ id     |-> pr.id,
    status |-> getPullRequestStatusById(pullRequestStatus, pr.head.sha, pr.id),
    title  |-> pr.title,
    number |-> pr.number,
    head   |-> [sha |-> pr.head.sha,
                repository |-> findGitHubRepositoryByID(pr.head.repoId)],
    base   |-> [repository |-> findGitHubRepositoryByID(pr.base.repoId)] ]

\* What getPullRequests(repository) returns when nothing runs in between.
currentView(repo) ==
  LET rows == whereBaseRepoId(pullRequests, repo.dbID)
  IN  [i \in 1..Len(rows) |-> builtPR(rows[i])]

\* The outcome a getPullRequests(repo) would have now: the fatal error for
\* a repository without dbID, else the built view.
viewOutcome(repo) ==
  IF repo.dbID = NoID THEN [fatal |-> TRUE, view |-> <<>>]
  ELSE [fatal |-> FALSE, view |-> currentView(repo)]

(* ------------------------------ Init ---------------------------------- *)

NoRepository == [name |-> "", dbID |-> NoID]
NoOutcome == [fatal |-> FALSE, view |-> <<>>]
NoCycle ==
  [ before |-> NoOutcome, statusBefore |-> <<>>, rejected |-> FALSE,
    remote |-> <<>>, statuses |-> <<>> ]
NoRefresh == [name |-> "", remote |-> {}, content |-> {}, count |-> 0]

Init ==
  /\ pullRequests = {}
  /\ pullRequestStatus = <<>>
  /\ nextId = 1
  /\ repositories = [n \in RepoNames |-> CASE n = "A" -> 1 [] n = "B" -> 2
                                            [] OTHER -> NoID]
  /\ call = [p \in Procs |-> "none"]
  /\ pc = [p \in Procs |-> "idle"]
  /\ repository = [p \in Procs |-> NoRepository]
  /\ prsFrmoAPI = [p \in Procs |-> <<>>]
  /\ listed = [p \in Procs |-> <<>>]
  /\ builtPullRequests = [p \in Procs |-> <<>>]
  /\ prs = [p \in Procs |-> <<>>]
  /\ pullRequestsStatuses = [p \in Procs |-> <<>>]
  /\ returned = [p \in Procs |-> <<>>]
  /\ error = [p \in Procs |-> ""]
  /\ cycle = [p \in Procs |-> NoCycle]
  /\ prev = NoRefresh

\* The slot a new call takes.
free(p) ==
  /\ pc[p] = "idle"
  /\ \A q \in Procs : q < p => pc[q] # "idle"

(* --------------------------- ways to fail ----------------------------- *)

\* An exception leaves the call: its locals are gone and the caller gets
\* the error.
throws(p, what) ==
  /\ pc' = [pc EXCEPT ![p] = "failed"]
  /\ error' = [error EXCEPT ![p] = what]
  /\ prsFrmoAPI' = [prsFrmoAPI EXCEPT ![p] = <<>>]
  /\ listed' = [listed EXCEPT ![p] = <<>>]
  /\ builtPullRequests' = [builtPullRequests EXCEPT ![p] = <<>>]
  /\ prs' = [prs EXCEPT ![p] = <<>>]
  /\ pullRequestsStatuses' = [pullRequestsStatuses EXCEPT ![p] = <<>>]
  /\ UNCHANGED << call, repository, returned >>

\* fatalError(msg): throws, so the statement after it is never reached.
fatalError(p) == throws(p, "fatalError")

(* ----------------------- updatePullRequests --------------------------- *)

\* A caller invokes updatePullRequests(repository, account); the call runs
\* up to its first await, api.fetchPullRequests.
updatePullRequests(p, name) ==
  /\ free(p)
  /\ call' = [call EXCEPT ![p] = "updatePullRequests"]
  /\ pc' = [pc EXCEPT ![p] = "fetchPullRequests"]
  /\ repository' = [repository EXCEPT ![p] = GitHubRepository(name)]
  /\ UNCHANGED << db, prsFrmoAPI, listed, builtPullRequests, prs,
                  pullRequestsStatuses, returned, error >>

\* Primary keys the writes already fetched for will take.
RECURSIVE PendingOf(_)
PendingOf(waiting) ==
  IF waiting = {} THEN 0
  ELSE LET q == CHOOSE q \in waiting : TRUE
       IN  Len(prsFrmoAPI[q]) + PendingOf(waiting \ {q})

Pending == PendingOf({ q \in Procs : pc[q] = "writePullRequests" })

\* api.fetchPullRequests answers with the open pull requests.
fetchPullRequestsResolves(p) ==
  /\ pc[p] = "fetchPullRequests"
  /\ \E list \in APIPullRequestLists(repository[p].name) :
       /\ nextId + Pending + Len(list) <= MaxId + 1
       /\ prsFrmoAPI' = [prsFrmoAPI EXCEPT ![p] = list]
  /\ pc' = [pc EXCEPT ![p] = "writePullRequests"]
  /\ UNCHANGED << db, call, repository, listed, builtPullRequests, prs,
                  pullRequestsStatuses, returned, error >>

\* Mutant: the rejection is caught and the refresh goes on with no pull
\* requests.
fetchPullRequestsRejectsSwallowed(p) ==
  /\ pc[p] = "fetchPullRequests"
  /\ pc' = [pc EXCEPT ![p] = "writePullRequests"]
  /\ prsFrmoAPI' = [prsFrmoAPI EXCEPT ![p] = <<>>]
  /\ UNCHANGED << db, call, repository, listed, builtPullRequests, prs,
                  pullRequestsStatuses, returned, error >>

\* api.fetchPullRequests rejects (network, auth, rate limit): the await
\* throws out of updatePullRequests.
fetchPullRequestsRejects(p) ==
  /\ pc[p] = "fetchPullRequests"
  /\ throws(p, "fetchPullRequests")
  /\ UNCHANGED db

\* Mutant: writePullRequests does not check repository.dbID.
writePullRequestsUnchecked(p) ==
  /\ pc[p] = "writePullRequests"
  /\ LET reps == PutAll(repositories, prsFrmoAPI[p])
     IN  /\ repositories' = reps
         /\ pullRequests' =
              replaceAll(pullRequests, prsFrmoAPI[p], reps, nextId)
         /\ nextId' = nextId + Len(prsFrmoAPI[p])
         /\ pc' = [pc EXCEPT ![p] = "getPullRequests1"]
         /\ prsFrmoAPI' = [prsFrmoAPI EXCEPT ![p] = <<>>]
         /\ UNCHANGED << pullRequestStatus, call, repository, listed,
                         builtPullRequests, prs, pullRequestsStatuses,
                         returned, error >>

\* Mutant: clear and bulkAdd run outside a transaction, so the table is
\* visible to other calls between the two awaits.
writePullRequestsNoTransaction(p) ==
  /\ pc[p] = "writePullRequests"
  /\ IF repository[p].dbID = NoID
     THEN /\ fatalError(p)
          /\ UNCHANGED db
     ELSE IF pullRequests # {}
     THEN /\ repositories' = PutAll(repositories, prsFrmoAPI[p])
          /\ pullRequests' = clear(pullRequests)
          /\ UNCHANGED << pullRequestStatus, nextId, call, pc, repository,
                          prsFrmoAPI, listed, builtPullRequests, prs,
                          pullRequestsStatuses, returned, error >>
     ELSE LET reps == PutAll(repositories, prsFrmoAPI[p])
          IN  /\ repositories' = reps
              /\ pullRequests' =
                   bulkAdd(pullRequests,
                           [i \in 1..Len(prsFrmoAPI[p]) |->
                              insertablePR(prsFrmoAPI[p][i], reps)],
                           nextId)
              /\ nextId' = nextId + Len(prsFrmoAPI[p])
              /\ pc' = [pc EXCEPT ![p] = "getPullRequests1"]
              /\ prsFrmoAPI' = [prsFrmoAPI EXCEPT ![p] = <<>>]
              /\ UNCHANGED << pullRequestStatus, call, repository, listed,
                              builtPullRequests, prs, pullRequestsStatuses,
                              returned, error >>

\* writePullRequests(prsFrmoAPI, repository).
writePullRequests(p) ==
  /\ pc[p] = "writePullRequests"
  /\ IF repository[p].dbID = NoID
     THEN /\ fatalError(p)
          /\ UNCHANGED db
     ELSE LET reps == PutAll(repositories, prsFrmoAPI[p])
          IN  /\ repositories' = reps
              /\ pullRequests' =
                   replaceAll(pullRequests, prsFrmoAPI[p], reps, nextId)
              /\ nextId' = nextId + Len(prsFrmoAPI[p])
              /\ pc' = [pc EXCEPT ![p] = "getPullRequests1"]
              /\ prsFrmoAPI' = [prsFrmoAPI EXCEPT ![p] = <<>>]
              /\ UNCHANGED << pullRequestStatus, call, repository, listed,
                              builtPullRequests, prs, pullRequestsStatuses,
                              returned, error >>

\* Mutant: the status row is keyed by the pull request's number.
statusRowByNumber(status, pr) ==
  [ state         |-> status.state,
    totalCount    |-> status.total_count,
    pullRequestId |-> pr.number,
    sha           |-> pr.head.sha ]

\* The status row the loop of updatePullRequests pushes (lines 54-59).
statusRow(status, pr) ==
  [ state         |-> status.state,
    totalCount    |-> status.total_count,
    pullRequestId |-> pr.id,
    sha           |-> pr.head.sha ]

\* builtPullRequests.push(builtPR), pullRequestsStatuses.push({...})
push(array, item) == Append(array, item)

\* Mutant: each status row is written as soon as it is fetched.
fetchCombinedRefStatusResolvesWrites(p) ==
  /\ pc[p] = "fetchCombinedRefStatus"
  /\ LET pr == prs[p][Len(pullRequestsStatuses[p]) + 1]
     IN  \E status \in CombinedStatuses :
           /\ pullRequestsStatuses' =
                [pullRequestsStatuses EXCEPT
                   ![p] = push(@, statusRow(status, pr))]
           /\ pullRequestStatus' =
                Append(pullRequestStatus, statusRow(status, pr))
  /\ pc' = [pc EXCEPT ![p] =
              IF Len(pullRequestsStatuses[p]) + 1 = Len(prs[p])
              THEN "writePullRequestStatus" ELSE "fetchCombinedRefStatus"]
  /\ UNCHANGED << pullRequests, nextId, repositories, call, repository,
                  prsFrmoAPI, listed, builtPullRequests, prs, returned,
                  error >>

\* Mutant: the loop fetches the status of the first pull request only and
\* leaves the others without a row.
fetchCombinedRefStatusResolvesFirstOnly(p) ==
  /\ pc[p] = "fetchCombinedRefStatus"
  /\ LET pr == prs[p][Len(pullRequestsStatuses[p]) + 1]
     IN  \E status \in CombinedStatuses :
           pullRequestsStatuses' =
             [pullRequestsStatuses EXCEPT ![p] = push(@, statusRow(status, pr))]
  /\ pc' = [pc EXCEPT ![p] = "writePullRequestStatus"]
  /\ UNCHANGED << db, call, repository, prsFrmoAPI, listed, builtPullRequests,
                  prs, returned, error >>

\* api.fetchCombinedRefStatus for the next element of `prs` answers, and
\* the loop pushes the status row.
fetchCombinedRefStatusResolves(p) ==
  /\ pc[p] = "fetchCombinedRefStatus"
  /\ LET pr == prs[p][Len(pullRequestsStatuses[p]) + 1]
     IN  \E status \in CombinedStatuses :
           pullRequestsStatuses' =
             [pullRequestsStatuses EXCEPT ![p] = push(@, statusRow(status, pr))]
  /\ pc' = [pc EXCEPT ![p] =
              IF Len(pullRequestsStatuses[p]) + 1 = Len(prs[p])
              THEN "writePullRequestStatus" ELSE "fetchCombinedRefStatus"]
  /\ UNCHANGED << db, call, repository, prsFrmoAPI, listed, builtPullRequests,
                  prs, returned, error >>

\* Mutant: the failed refresh undoes its replace and leaves the table
\* without rows.
fetchCombinedRefStatusRejectsRollsBack(p) ==
  /\ pc[p] = "fetchCombinedRefStatus"
  /\ throws(p, "fetchCombinedRefStatus")
  /\ pullRequests' = clear(pullRequests)
  /\ UNCHANGED << pullRequestStatus, nextId, repositories >>

\* api.fetchCombinedRefStatus rejects: the await throws out of the loop.
fetchCombinedRefStatusRejects(p) ==
  /\ pc[p] = "fetchCombinedRefStatus"
  /\ throws(p, "fetchCombinedRefStatus")
  /\ UNCHANGED db

\* db.pullRequestStatus.bulkAdd(statuses): the rows go after those the
\* table holds; no key is unique.
bulkAddStatus(table, statuses) == table \o statuses

\* Mutant: the status table is replaced as the pull request table is, the
\* rows of the cycle taking the place of the stored ones.
writePullRequestStatusReplaces(p) ==
  /\ pc[p] = "writePullRequestStatus"
  /\ pullRequestStatus' = pullRequestsStatuses[p]
  /\ pc' = [pc EXCEPT ![p] = "getPullRequests2"]
  /\ prs' = [prs EXCEPT ![p] = <<>>]
  /\ pullRequestsStatuses' = [pullRequestsStatuses EXCEPT ![p] = <<>>]
  /\ UNCHANGED << pullRequests, nextId, repositories, call, repository,
                  prsFrmoAPI, listed, builtPullRequests, returned, error >>

\* writePullRequestStatus(pullRequestsStatuses)
writePullRequestStatus(p) ==
  /\ pc[p] = "writePullRequestStatus"
  /\ pullRequestStatus' = bulkAddStatus(pullRequestStatus, pullRequestsStatuses[p])
  /\ pc' = [pc EXCEPT ![p] = "getPullRequests2"]
  /\ prs' = [prs EXCEPT ![p] = <<>>]
  /\ pullRequestsStatuses' = [pullRequestsStatuses EXCEPT ![p] = <<>>]
  /\ UNCHANGED << pullRequests, nextId, repositories, call, repository,
                  prsFrmoAPI, listed, builtPullRequests, returned, error >>

(* -------------------------- getPullRequests --------------------------- *)

\* Mutant: getPullRequests refreshes from the remote before it reads.
getPullRequestsFetches(p, name) ==
  /\ free(p)
  /\ call' = [call EXCEPT ![p] = "getPullRequests"]
  /\ pc' = [pc EXCEPT ![p] = "fetchPullRequests"]
  /\ repository' = [repository EXCEPT ![p] = GitHubRepository(name)]
  /\ UNCHANGED << db, prsFrmoAPI, listed, builtPullRequests, prs,
                  pullRequestsStatuses, returned, error >>

\* A caller invokes getPullRequests(repository).
getPullRequests(p, name) ==
  /\ free(p)
  /\ call' = [call EXCEPT ![p] = "getPullRequests"]
  /\ pc' = [pc EXCEPT ![p] = "getPullRequests"]
  /\ repository' = [repository EXCEPT ![p] = GitHubRepository(name)]
  /\ UNCHANGED << db, prsFrmoAPI, listed, builtPullRequests, prs,
                  pullRequestsStatuses, returned, error >>

\* The places getPullRequests runs from: called on its own, and the first
\* and the second call inside updatePullRequests; and its loop in each.
QueryPcs == {"getPullRequests", "getPullRequests1", "getPullRequests2"}
LoopPcs == {"for", "for1", "for2"}

loopOf(at) ==
  CASE at = "getPullRequests"  -> "for"
    [] at = "getPullRequests1" -> "for1"
    [] at = "getPullRequests2" -> "for2"

\* `return builtPullRequests`, and what the caller does with it up to its
\* next await: the first call inside updatePullRequests assigns `prs` and
\* enters the loop (lines 44-47); the second one is returned (lines 64-66).
returns(p, at, built) ==
  /\ listed' = [listed EXCEPT ![p] = <<>>]
  /\ builtPullRequests' = [builtPullRequests EXCEPT ![p] = <<>>]
  /\ IF at \in {"getPullRequests1", "for1"}
     THEN /\ prs' = [prs EXCEPT ![p] = built]
          /\ pc' = [pc EXCEPT ![p] =
                      IF built = <<>> THEN "writePullRequestStatus"
                                      ELSE "fetchCombinedRefStatus"]
          /\ UNCHANGED returned
     ELSE /\ returned' = [returned EXCEPT ![p] = built]
          /\ pc' = [pc EXCEPT ![p] = "done"]
          /\ UNCHANGED prs

\* Lines 72-85: the dbID check and the query on db.pullRequests.
query(p) ==
  /\ pc[p] \in QueryPcs
  /\ IF repository[p].dbID = NoID
     THEN fatalError(p)
     ELSE LET rows == whereBaseRepoId(pullRequests, repository[p].dbID)
          IN  /\ IF rows = <<>>
                 THEN returns(p, pc[p], <<>>)
                 ELSE /\ listed' = [listed EXCEPT ![p] = rows]
                      /\ builtPullRequests' =
                           [builtPullRequests EXCEPT ![p] = <<>>]
                      /\ pc' = [pc EXCEPT ![p] = loopOf(pc[p])]
                      /\ UNCHANGED << prs, returned >>
              /\ UNCHANGED << call, repository, prsFrmoAPI,
                              pullRequestsStatuses, error >>
  /\ UNCHANGED db

\* Lines 88-110: one turn of the loop builds the next listed row.
build(p) ==
  /\ pc[p] \in LoopPcs
  /\ LET pr    == listed[p][Len(builtPullRequests[p]) + 1]
         built == push(builtPullRequests[p], builtPR(pr))
     IN  IF Len(built) = Len(listed[p])
         THEN returns(p, pc[p], built)
         ELSE /\ builtPullRequests' = [builtPullRequests EXCEPT ![p] = built]
              /\ UNCHANGED << pc, listed, prs, returned >>
  /\ UNCHANGED << db, call, repository, prsFrmoAPI, pullRequestsStatuses,
                  error >>

(* ------------------------------ callers ------------------------------- *)

\* The caller receives the result or the error, and the process is free
\* for the next call.
settle(p) ==
  /\ pc[p] \in {"done", "failed"}
  /\ call' = [call EXCEPT ![p] = "none"]
  /\ pc' = [pc EXCEPT ![p] = "idle"]
  /\ repository' = [repository EXCEPT ![p] = NoRepository]
  /\ returned' = [returned EXCEPT ![p] = <<>>]
  /\ error' = [error EXCEPT ![p] = ""]
  /\ UNCHANGED << db, prsFrmoAPI, listed, builtPullRequests, prs,
                  pullRequestsStatuses >>

\* Calls start at any time, also while others are in flight, and every
\* awaited step of a call in flight may be the next to run.  The history
\* variables are not kept.
Next ==
  \E p \in Procs :
    \/ \E name \in RepoNames : updatePullRequests(p, name) /\ UNCHANGED history
    \/ \E name \in RepoNames : getPullRequests(p, name) /\ UNCHANGED history
    \/ fetchPullRequestsResolves(p) /\ UNCHANGED history
    \/ fetchPullRequestsRejects(p) /\ UNCHANGED history
    \/ writePullRequests(p) /\ UNCHANGED history
    \/ fetchCombinedRefStatusResolves(p) /\ UNCHANGED history
    \/ fetchCombinedRefStatusRejects(p) /\ UNCHANGED history
    \/ writePullRequestStatus(p) /\ UNCHANGED history
    \/ query(p) /\ UNCHANGED history
    \/ build(p) /\ UNCHANGED history
    \/ settle(p) /\ UNCHANGED history

Spec == Init /\ [][Next]_vars

(* ----------------------- one call at a time --------------------------- *)

\* The caller starts a call only when no other call is in flight.
Idle == \A q \in Procs : pc[q] = "idle"

\* (number, title) of every element of a view.
content(view) == { << view[i].number, view[i].title >> : i \in 1..Len(view) }

\* History: the view and the status table at the call of a refresh.
atCall(p, name) ==
  /\ cycle' = [cycle EXCEPT ![p].before = viewOutcome(GitHubRepository(name)),
                            ![p].statusBefore = pullRequestStatus]
  /\ UNCHANGED prev

\* History: the list the fetch of the refresh answered with.
atFetched(p) ==
  /\ cycle' = [cycle EXCEPT ![p].remote = prsFrmoAPI'[p]]
  /\ UNCHANGED prev

\* History: the fetch of the refresh was rejected.
atRejected(p) ==
  /\ cycle' = [cycle EXCEPT ![p].rejected = TRUE]
  /\ UNCHANGED prev

\* History: the status rows the refresh has fetched.
atStatus(p) ==
  /\ cycle' = [cycle EXCEPT ![p].statuses = pullRequestsStatuses'[p]]
  /\ UNCHANGED prev

\* History: the remote set and the view of the refresh that returns.
atSettle(p) ==
  /\ cycle' = [cycle EXCEPT ![p] = NoCycle]
  /\ prev' =
       IF call[p] = "updatePullRequests" /\ pc[p] = "done"
       THEN [ name    |-> repository[p].name,
              remote  |-> Range(cycle[p].remote),
              content |-> content(currentView(repository[p])),
              count   |-> Len(currentView(repository[p])) ]
       ELSE prev

NextSeq ==
  \E p \in Procs :
    \/ \E name \in RepoNames :
         Idle /\ updatePullRequests(p, name) /\ atCall(p, name)
    \/ \E name \in RepoNames :
         Idle /\ getPullRequests(p, name) /\ UNCHANGED history
    \/ fetchPullRequestsResolves(p) /\ atFetched(p)
    \/ fetchPullRequestsRejects(p) /\ atRejected(p)
    \/ writePullRequests(p) /\ UNCHANGED history
    \/ fetchCombinedRefStatusResolves(p) /\ atStatus(p)
    \/ fetchCombinedRefStatusRejects(p) /\ UNCHANGED history
    \/ writePullRequestStatus(p) /\ UNCHANGED history
    \/ query(p) /\ UNCHANGED history
    \/ build(p) /\ UNCHANGED history
    \/ settle(p) /\ atSettle(p)

SpecSeq == Init /\ [][NextSeq]_vars

(* ------------------ one refresh at a time, and readers ---------------- *)

\* History: the call is over.
atReturn(p) ==
  /\ cycle' = [cycle EXCEPT ![p] = NoCycle]
  /\ UNCHANGED prev

\* No refresh is in flight; no getPullRequests called on its own is.
NoRefreshInFlight == \A q \in Procs : call[q] # "updatePullRequests"
NoReaderInFlight == \A q \in Procs : call[q] # "getPullRequests"

\* A refresh of the repository is in flight.
RefreshOf(name) ==
  \E q \in Procs :
    call[q] = "updatePullRequests" /\ repository[q].name = name

\* One writer and one reader: the caller starts a refresh only when no
\* other refresh is in flight, and a getPullRequests of a repository while
\* a refresh of that repository is in flight and no other getPullRequests
\* is.  The history keeps, for each refresh, the view at its call and the
\* fetched list.
NextRead ==
  \E p \in Procs :
    \/ \E name \in RepoNames :
         NoRefreshInFlight /\ updatePullRequests(p, name) /\ atCall(p, name)
    \/ \E name \in RepoNames :
         NoReaderInFlight /\ RefreshOf(name) /\ getPullRequests(p, name)
           /\ UNCHANGED history
    \/ fetchPullRequestsResolves(p) /\ atFetched(p)
    \/ fetchPullRequestsRejects(p) /\ UNCHANGED history
    \/ writePullRequests(p) /\ UNCHANGED history
    \/ fetchCombinedRefStatusResolves(p) /\ UNCHANGED history
    \/ fetchCombinedRefStatusRejects(p) /\ UNCHANGED history
    \/ writePullRequestStatus(p) /\ UNCHANGED history
    \/ query(p) /\ UNCHANGED history
    \/ build(p) /\ UNCHANGED history
    \/ settle(p) /\ atReturn(p)

SpecRead == Init /\ [][NextRead]_vars

(* ------------- the repositories store loses an identity --------------- *)

\* The repositories store is a database of its own: findGitHubRepositoryByID
\* answers with the identity or with null.  Here the identity of the fork
\* goes from that store while the pull request rows that name it stay.
gitHubRepositoryLost ==
  /\ repositories[Fork] # NoID
  /\ repositories' = [repositories EXCEPT ![Fork] = NoID]
  /\ UNCHANGED << pullRequests, pullRequestStatus, nextId, call, pc,
                  repository, prsFrmoAPI, listed, builtPullRequests, prs,
                  pullRequestsStatuses, returned, error >>

\* One call at a time, and the loss of the identity at any moment.
NextLost ==
  \/ gitHubRepositoryLost /\ UNCHANGED history
  \/ \E p \in Procs :
       \/ \E name \in RepoNames :
            Idle /\ updatePullRequests(p, name) /\ atCall(p, name)
       \/ \E name \in RepoNames :
            Idle /\ getPullRequests(p, name) /\ UNCHANGED history
       \/ fetchPullRequestsResolves(p) /\ atFetched(p)
       \/ fetchPullRequestsRejects(p) /\ atRejected(p)
       \/ writePullRequests(p) /\ UNCHANGED history
       \/ fetchCombinedRefStatusResolves(p) /\ atStatus(p)
       \/ fetchCombinedRefStatusRejects(p) /\ UNCHANGED history
       \/ writePullRequestStatus(p) /\ UNCHANGED history
       \/ query(p) /\ UNCHANGED history
       \/ build(p) /\ UNCHANGED history
       \/ settle(p) /\ atReturn(p)

SpecLost == Init /\ [][NextLost]_vars

(* -------------------- refreshes that run together --------------------- *)

\* No refresh of the repository is in flight.
NoRefreshOf(name) ==
  \A q \in Procs :
    call[q] = "updatePullRequests" => repository[q].name # name

\* The caller starts a refresh of a repository while refreshes of other
\* repositories are in flight, never two of one repository.  The history
\* keeps the list each refresh fetched.
NextPar ==
  \E p \in Procs :
    \/ \E name \in RepoNames :
         NoRefreshOf(name) /\ updatePullRequests(p, name)
           /\ UNCHANGED history
    \/ fetchPullRequestsResolves(p) /\ atFetched(p)
    \/ fetchPullRequestsRejects(p) /\ UNCHANGED history
    \/ writePullRequests(p) /\ UNCHANGED history
    \/ fetchCombinedRefStatusResolves(p) /\ UNCHANGED history
    \/ fetchCombinedRefStatusRejects(p) /\ UNCHANGED history
    \/ writePullRequestStatus(p) /\ UNCHANGED history
    \/ query(p) /\ UNCHANGED history
    \/ build(p) /\ UNCHANGED history
    \/ settle(p) /\ atReturn(p)

SpecPar == Init /\ [][NextPar]_vars

(* ============================== claims ================================ *)

\* The repositories a caller can hold with a dbID.
Inserted == { name \in RepoNames : repositories[name] # NoID }

\* The process p has returned from updatePullRequests.
Refreshed(p) == call[p] = "updatePullRequests" /\ pc[p] = "done"

numbersOf(view) == { view[i].number : i \in 1..Len(view) }

\* The step in which the process p runs the transaction of
\* writePullRequests.
Replaces(p) == pc[p] = "writePullRequests" /\ pc'[p] = "getPullRequests1"

(* ------------------------------- C1 ----------------------------------- *)

\* C1 (Scoping): a refresh of repository A neither removes nor alters a
\* row whose base repository is another repository B, and the view of B is
\* the same before and after the replace step of refresh(A).
C1_Scoping ==
  [][ \A p \in Procs : Replaces(p) =>
        \A name \in Inserted : name # repository[p].name =>
          /\ { r \in pullRequests : r.base.repoId = repositories[name] }
               \subseteq pullRequests'
          /\ currentView(GitHubRepository(name))'
               = currentView(GitHubRepository(name)) ]_vars

(* ------------------------------- C2 ----------------------------------- *)

\* C2 (Atomicity on fetch failure): when api.fetchPullRequests rejects, the
\* refresh ends in an error, the rejecting step changes neither table, and
\* the view of the repository is what it was when the refresh was called.
C2_FetchFailureAtomic ==
  /\ [](\A p \in Procs : cycle[p].rejected =>
          /\ pc[p] = "failed"
          /\ viewOutcome(repository[p]) = cycle[p].before)
  /\ [][ \A p \in Procs : (~cycle[p].rejected /\ cycle'[p].rejected) =>
           UNCHANGED << pullRequests, pullRequestStatus >> ]_vars

\* A refresh whose fetch was rejected while the cache held rows of the
\* repository.
C2_Witness ==
  \E p \in Procs :
    /\ cycle[p].rejected
    /\ error[p] = "fetchPullRequests"
    /\ cycle[p].before.view # <<>>

(* ------------------------------- C3 ----------------------------------- *)

\* C3 (Completeness): every pull request of the list fetched at step 1 is,
\* by number, in the sequence a successful refresh returns.
C3_Completeness ==
  \A p \in Procs : Refreshed(p) =>
    \A i \in 1..Len(cycle[p].remote) :
      cycle[p].remote[i].number \in numbersOf(returned[p])

\* A refresh that returned two pull requests, one of them from the fork.
C3_Witness ==
  \E p \in Procs :
    /\ Refreshed(p)
    /\ Len(cycle[p].remote) = 2
    /\ \E i \in 1..2 : cycle[p].remote[i].head.repo = Fork

(* ------------------------------- C4 ----------------------------------- *)

\* C4 (Full replacement): after a successful refresh the view of the
\* repository holds no pull request that is not in the remote set of that
\* refresh; with an empty remote set the view is empty.
C4_FullReplacement ==
  \A p \in Procs : Refreshed(p) =>
    /\ numbersOf(currentView(repository[p]))
         \subseteq { cycle[p].remote[i].number : i \in 1..Len(cycle[p].remote) }
    /\ cycle[p].remote = <<>> => currentView(repository[p]) = <<>>

\* A refresh with an empty remote set, of a repository that had rows cached
\* when it was called.
C4_Witness ==
  \E p \in Procs :
    /\ Refreshed(p)
    /\ cycle[p].remote = <<>>
    /\ cycle[p].before.view # <<>>
    /\ currentView(repository[p]) = <<>>

(* ------------------------------- C5 ----------------------------------- *)

idsOf(seq) == [i \in 1..Len(seq) |-> seq[i].id]

\* C5 (Ordering): the view of every repository is sorted by number,
\* strictly descending, and getPullRequests builds and returns the pull
\* requests in the order in which the rows were listed.
C5_Ordering ==
  /\ \A name \in Inserted :
       LET view == currentView(GitHubRepository(name))
       IN  \A i, j \in 1..Len(view) : i < j => view[i].number > view[j].number
  /\ \A p \in Procs :
       /\ pc[p] \in LoopPcs =>
            idsOf(builtPullRequests[p])
              = SubSeq(idsOf(listed[p]), 1, Len(builtPullRequests[p]))
       /\ pc[p] = "done" =>
            idsOf(returned[p])
              = idsOf(whereBaseRepoId(pullRequests, repository[p].dbID))

\* A returned view of two pull requests whose rows were inserted in the
\* opposite order.
C5_Witness ==
  \E p \in Procs :
    /\ pc[p] = "done"
    /\ Len(returned[p]) = 2
    /\ returned[p][1].number > returned[p][2].number
    /\ returned[p][1].id > returned[p][2].id

(* ------------------------------- C6 ----------------------------------- *)

\* C6 (Idempotence of replace): when a refresh returns for the repository
\* and with the remote set of the refresh that returned before it, the view
\* has the count and the (number, title) pairs it had after that one.
C6_Idempotence ==
  \A p \in Procs :
    ( /\ Refreshed(p)
      /\ prev.name = repository[p].name
      /\ prev.remote = Range(cycle[p].remote) ) =>
        /\ content(currentView(repository[p])) = prev.content
        /\ Len(currentView(repository[p])) = prev.count

\* The second of two refreshes with the same, non-empty remote set; the
\* rows have new ids.
C6_Witness ==
  \E p \in Procs :
    /\ Refreshed(p)
    /\ prev.name = repository[p].name
    /\ prev.remote = Range(cycle[p].remote)
    /\ prev.count > 0
    /\ \A i \in 1..Len(returned[p]) : returned[p][i].id > prev.count

(* ------------------------------- C7 ----------------------------------- *)

\* No status row was ever added under the key (sha, pullRequestId): the
\* table only grows, so none is in it.
NeverRecorded(sha, pullRequestId) ==
  \A i \in 1..Len(pullRequestStatus) :
    ~ ( pullRequestStatus[i].sha = sha
        /\ pullRequestStatus[i].pullRequestId = pullRequestId )

\* C7 (Status absence): a cached pull request with no status row under its
\* (head sha, id) key is in the view with a null status, and a
\* getPullRequests call for a repository with a dbID does not fail.
C7_StatusAbsence ==
  /\ \A name \in Inserted :
       LET view == currentView(GitHubRepository(name))
       IN  \A i \in 1..Len(view) :
             NeverRecorded(view[i].head.sha, view[i].id) => view[i].status = NULL
  /\ \A p \in Procs :
       /\ (call[p] = "getPullRequests" /\ pc[p] = "failed")
            => repository[p].dbID = NoID
       /\ (call[p] = "getPullRequests" /\ pc[p] = "done") =>
            \A i \in 1..Len(returned[p]) :
              NeverRecorded(returned[p][i].head.sha, returned[p][i].id)
                => returned[p][i].status = NULL

\* A getPullRequests call returned a pull request without status while the
\* status table holds a row for the same sha under another id.
C7_Witness ==
  \E p \in Procs :
    /\ call[p] = "getPullRequests"
    /\ pc[p] = "done"
    /\ \E i \in 1..Len(returned[p]) :
         /\ NeverRecorded(returned[p][i].head.sha, returned[p][i].id)
         /\ returned[p][i].status = NULL
         /\ \E k \in 1..Len(pullRequestStatus) :
              pullRequestStatus[k].sha = returned[p][i].head.sha

(* ------------------------------- C8 ----------------------------------- *)

\* C8 (Status attachment): every pull request a successful refresh returns
\* carries the state and totalCount fetched for it in that cycle, and the
\* returned sequence is the view.
C8_StatusAttachment ==
  \A p \in Procs : Refreshed(p) =>
    /\ \A i \in 1..Len(returned[p]) :
         \E k \in 1..Len(cycle[p].statuses) :
           LET row == cycle[p].statuses[k]
           IN  /\ row.pullRequestId = returned[p][i].id
               /\ row.sha = returned[p][i].head.sha
               /\ returned[p][i].status =
                    [ state      |-> row.state,
                      totalCount |-> row.totalCount,
                      sha        |-> row.sha ]
    /\ returned[p] = currentView(repository[p])

\* A refresh returned two pull requests whose fetched states differ.
C8_Witness ==
  \E p \in Procs :
    /\ Refreshed(p)
    /\ Len(returned[p]) = 2
    /\ returned[p][1].status # NULL
    /\ returned[p][2].status # NULL
    /\ returned[p][1].status.state # returned[p][2].status.state

(* ------------------------------- C9 ----------------------------------- *)

\* The row added last under the key of the row at index i.
lastAdded(i) ==
  LET same == { k \in 1..Len(pullRequestStatus) :
                  /\ pullRequestStatus[k].sha = pullRequestStatus[i].sha
                  /\ pullRequestStatus[k].pullRequestId
                       = pullRequestStatus[i].pullRequestId }
  IN  pullRequestStatus[MaxOf(same)]

\* C9 (Latest wins): the status lookup under a key answers with the state,
\* totalCount and sha of the row added last under that key.
C9_LatestWins ==
  \A i \in 1..Len(pullRequestStatus) :
    getPullRequestStatusById(pullRequestStatus, pullRequestStatus[i].sha,
                             pullRequestStatus[i].pullRequestId)
      = [ state      |-> lastAdded(i).state,
          totalCount |-> lastAdded(i).totalCount,
          sha        |-> lastAdded(i).sha ]

(* ------------------------------- C10 ---------------------------------- *)

\* The call of p was made for a repository without dbID.
NoIdentity(p) == call[p] # "none" /\ repository[p].dbID = NoID

\* C10 (Precondition violation): a call for a repository without dbID never
\* returns a result; where it reaches the dbID check it throws the fatal
\* error; and no step of it changes either table.
C10_PreconditionViolation ==
  /\ [](\A p \in Procs : NoIdentity(p) =>
          /\ pc[p] \in {"fetchPullRequests", "writePullRequests",
                        "getPullRequests", "failed"}
          /\ pc[p] = "failed" => error[p] \in {"fatalError", "fetchPullRequests"})
  /\ [][ \A p \in Procs : (NoIdentity(p) /\ pc'[p] # pc[p]) =>
           /\ UNCHANGED << pullRequests, pullRequestStatus >>
           /\ pc[p] \in {"writePullRequests", "getPullRequests"} =>
                (pc'[p] = "failed" /\ error'[p] = "fatalError") ]_vars

\* A refresh for a repository without dbID threw the fatal error while the
\* tables held rows.
C10_Witness ==
  \E p \in Procs :
    /\ call[p] = "updatePullRequests"
    /\ repository[p].dbID = NoID
    /\ pc[p] = "failed"
    /\ error[p] = "fatalError"
    /\ pullRequests # {}
    /\ pullRequestStatus # <<>>

(* ------------------------------- C11 ---------------------------------- *)

\* The refresh p has not run its transaction yet, or never will.
BeforeReplace(p) ==
  \/ pc[p] \in {"fetchPullRequests", "writePullRequests"}
  \/ pc[p] = "failed" /\ error[p] \in {"fetchPullRequests", "fatalError"}

\* The step in which the reader q, called on its own, lists the rows of
\* its repository.
Reads(q) ==
  /\ call[q] = "getPullRequests"
  /\ pc[q] = "getPullRequests"
  /\ pc'[q] \in {"for", "done"}

\* C11 (Atomic replace visibility): a getPullRequests that lists the rows
\* of a repository while a refresh of that repository is in flight lists
\* exactly the rows the refresh found at its call (the old set) when the
\* transaction has not run yet, and exactly the rows of the fetched list
\* (the new set) when it has; never an empty table in between, never a mix.
C11_AtomicReplace ==
  [][ \A q \in Procs : \A p \in Procs :
        ( /\ Reads(q)
          /\ call[p] = "updatePullRequests"
          /\ repository[p].name = repository[q].name ) =>
            content(listed'[q]) =
              IF BeforeReplace(p) THEN content(cycle[p].before.view)
                                  ELSE content(cycle[p].remote) ]_vars

\* A reader has listed the new set of a refresh of its repository that is
\* still in flight; the old set, the one the refresh found at its call, had
\* rows and differs from the new one, so the reader ran its query after
\* the transaction and before the refresh returned.
C11_Witness ==
  \E q \in Procs : \E p \in Procs :
    /\ call[q] = "getPullRequests" /\ pc[q] = "for"
    /\ call[p] = "updatePullRequests" /\ ~BeforeReplace(p)
    /\ pc[p] \notin {"done", "failed"}
    /\ repository[p].name = repository[q].name
    /\ content(listed[q]) = content(cycle[p].remote)
    /\ cycle[p].before.view # <<>>
    /\ content(cycle[p].before.view) # content(listed[q])

(* ------------------------------- C12 ---------------------------------- *)

\* C12 (Append-only status table): no step deletes a status row or changes
\* one in place: the table of the later state starts with the whole table
\* of the earlier state, so its rows contain those of the earlier state.
C12_AppendOnly ==
  [][ /\ Len(pullRequestStatus') >= Len(pullRequestStatus)
      /\ SubSeq(pullRequestStatus', 1, Len(pullRequestStatus))
           = pullRequestStatus ]_vars

\* A refresh has added its status row to a table that held the row of an
\* earlier refresh.
C12_Witness ==
  \E p \in Procs :
    /\ call[p] = "updatePullRequests"
    /\ pc[p] = "getPullRequests2"
    /\ cycle[p].statusBefore # <<>>
    /\ cycle[p].statuses # <<>>
    /\ pullRequestStatus = cycle[p].statusBefore \o cycle[p].statuses

(* ------------------------------- C13 ---------------------------------- *)

\* The places where a call awaits the remote.
FetchPcs == {"fetchPullRequests", "fetchCombinedRefStatus"}

\* C13 (Read-only view): a getPullRequests called on its own never awaits
\* a remote fetch, none of its steps changes the pull request table, the
\* status table, the key generator or the repositories, and what it returns
\* is the view of the tables, so two calls with no refresh between them
\* return the same sequence.
C13_ReadOnlyView ==
  /\ [](\A p \in Procs : call[p] = "getPullRequests" =>
          /\ pc[p] \notin FetchPcs
          /\ pc[p] = "done" => returned[p] = currentView(repository[p]))
  /\ [][ \A p \in Procs :
           (call[p] = "getPullRequests" \/ call'[p] = "getPullRequests") =>
             UNCHANGED db ]_vars

\* A getPullRequests has returned a view with two pull requests, one of
\* them with a status.
C13_Witness ==
  \E p \in Procs :
    /\ call[p] = "getPullRequests" /\ pc[p] = "done"
    /\ Len(returned[p]) = 2
    /\ \E i \in 1..2 : returned[p][i].status # NULL
    /\ pullRequestStatus # <<>>

(* ------------------------------- C14 ---------------------------------- *)

\* The refresh p has ended with the error of a combined-status fetch.
StatusFetchFailed(p) ==
  /\ call[p] = "updatePullRequests"
  /\ pc[p] = "failed"
  /\ error[p] = "fetchCombinedRefStatus"

\* C14 (Partial failure in status phase): when a combined-status fetch
\* rejects, the refresh ends with that error, the rows written by the
\* replace stay (the view lists exactly the fetched pull requests, each
\* once), and the pull requests of the view, none of which got its status
\* attached, show no status.
C14_PartialStatusFailure ==
  /\ [][ \A p \in Procs :
           (pc[p] = "fetchCombinedRefStatus" /\ pc'[p] = "failed") =>
             StatusFetchFailed(p)' ]_vars
  /\ [](\A p \in Procs : StatusFetchFailed(p) =>
          LET view == currentView(repository[p])
          IN  /\ content(view) = content(cycle[p].remote)
              /\ Len(view) = Len(cycle[p].remote)
              /\ \A i \in 1..Len(view) : view[i].status = NULL)

\* A refresh of two pull requests has failed at the second status fetch,
\* after the first one answered.
C14_Witness ==
  \E p \in Procs :
    /\ StatusFetchFailed(p)
    /\ Len(cycle[p].remote) = 2
    /\ Len(cycle[p].statuses) = 1
    /\ Len(currentView(repository[p])) = 2

(* ------------------------------- C15 ---------------------------------- *)

\* The stored row names, as head or as base, a repository the repositories
\* store does not resolve.
Unresolved(row) ==
  \/ findGitHubRepositoryByID(row.head.repoId) = NULL
  \/ findGitHubRepositoryByID(row.base.repoId) = NULL

\* C15 (Inconsistent reference): a getPullRequests that returns has
\* returned no pull request whose head or base carries no repository
\* identity: a row that cannot be resolved made the build fail or was
\* skipped.
C15_InconsistentReference ==
  \A p \in Procs : pc[p] = "done" =>
    \A i \in 1..Len(returned[p]) :
      /\ returned[p][i].head.repository # NULL
      /\ returned[p][i].base.repository # NULL

(* ------------------------------- C16 ---------------------------------- *)

\* The numbers of the list the refresh p fetched.
remoteSet(p) == { cycle[p].remote[i].number : i \in 1..Len(cycle[p].remote) }

\* C16 (Concurrent refreshes of different repositories): when a refresh of
\* A and a refresh of B, A # B, have run interleaved and both have
\* returned, the sequence each returned holds every pull request of the
\* list it fetched, and so does the view of each repository afterwards.
C16_ConcurrentRefreshes ==
  \A p \in Procs : \A q \in Procs :
    ( /\ Refreshed(p) /\ Refreshed(q)
      /\ repository[p].name # repository[q].name ) =>
        /\ remoteSet(p) \subseteq numbersOf(returned[p])
        /\ remoteSet(p) \subseteq numbersOf(currentView(repository[p]))

(* ------------------------------- C17 ---------------------------------- *)

\* The ids of the stored rows whose base is the repository with this id.
baseRows(id) == { r.id : r \in { x \in pullRequests : x.base.repoId = id } }

\* C17 (Read scoping): what getPullRequests(repository) returns comes,
\* element by element, from the stored rows whose base.repoId is the dbID
\* of the repository, each of them once and no row of another repository;
\* and so does the view of every repository in every state.
C17_ReadScoping ==
  /\ \A name \in Inserted :
       LET view == currentView(GitHubRepository(name))
       IN  /\ Range(idsOf(view)) = baseRows(repositories[name])
           /\ Len(view) = Cardinality(baseRows(repositories[name]))
  /\ \A p \in Procs : pc[p] = "done" =>
       /\ Range(idsOf(returned[p])) = baseRows(repository[p].dbID)
       /\ Len(returned[p]) = Cardinality(baseRows(repository[p].dbID))

\* A getPullRequests of the fork has returned nothing while the table
\* holds a row whose head, not its base, is the fork.
C17_Witness ==
  \E p \in Procs :
    /\ call[p] = "getPullRequests" /\ pc[p] = "done"
    /\ repository[p].name = Fork
    /\ returned[p] = <<>>
    /\ \E r \in pullRequests :
         r.head.repoId = repository[p].dbID /\ r.base.repoId # r.head.repoId

(* ------------------------------- C18 ---------------------------------- *)

\* The step in which the refresh p writes its status rows.
WritesStatus(p) ==
  pc[p] = "writePullRequestStatus" /\ pc'[p] = "getPullRequests2"

\* The rows of the status table after the first n.
added(table, n) == SubSeq(table, n + 1, Len(table))

\* C18 (One status row per pull request): the status write of a refresh
\* appends one row for each element of `prs`, the view read after the
\* replace, in its order, each with the id and the head sha of that
\* element; and a refresh that has returned has appended these rows and no
\* other.
C18_OneStatusRowEach ==
  /\ [][ \A p \in Procs : WritesStatus(p) =>
           LET rows == added(pullRequestStatus', Len(pullRequestStatus))
           IN  /\ SubSeq(pullRequestStatus', 1, Len(pullRequestStatus))
                    = pullRequestStatus
               /\ Len(rows) = Len(prs[p])
               /\ \A i \in 1..Len(prs[p]) :
                    /\ rows[i].pullRequestId = prs[p][i].id
                    /\ rows[i].sha = prs[p][i].head.sha ]_vars
  /\ [](\A p \in Procs : Refreshed(p) =>
          LET rows == added(pullRequestStatus, Len(cycle[p].statusBefore))
          IN  /\ SubSeq(pullRequestStatus, 1, Len(cycle[p].statusBefore))
                   = cycle[p].statusBefore
              /\ Len(rows) = Len(returned[p])
              /\ \A i \in 1..Len(rows) :
                   \E k \in 1..Len(returned[p]) :
                     /\ rows[i].pullRequestId = returned[p][k].id
                     /\ rows[i].sha = returned[p][k].head.sha
              /\ \A k \in 1..Len(returned[p]) :
                   Cardinality({ i \in 1..Len(rows) :
                     rows[i].pullRequestId = returned[p][k].id }) = 1)

\* A refresh of two pull requests has returned and the table holds two
\* rows more than at its call.
C18_Witness ==
  \E p \in Procs :
    /\ Refreshed(p)
    /\ Len(returned[p]) = 2
    /\ Len(pullRequestStatus) = Len(cycle[p].statusBefore) + 2

(* ------------------------------- C19 ---------------------------------- *)

\* C19 (Status batch): the status rows of a refresh are written in one
\* batch after every fetch has answered, so when a status fetch rejects
\* the status table is the table the refresh found at its call, the rows
\* fetched before the rejection not among its rows.
C19_StatusBatch ==
  \A p \in Procs : StatusFetchFailed(p) =>
    pullRequestStatus = cycle[p].statusBefore

\* A refresh has fetched the status of its first pull request and has
\* failed at the second; the table is as at its call.
C19_Witness ==
  \E p \in Procs :
    /\ StatusFetchFailed(p)
    /\ cycle[p].statuses # <<>>
    /\ pullRequestStatus = cycle[p].statusBefore

(* ------------------------------- C20 ---------------------------------- *)

\* The refresh p has replaced the rows and has not written their status
\* rows.
StatusPending(p) ==
  /\ call[p] = "updatePullRequests"
  /\ \/ pc[p] \in {"getPullRequests1", "for1", "fetchCombinedRefStatus",
                    "writePullRequestStatus"}
     \/ StatusFetchFailed(p)

\* C20 (One status row per key): with one refresh in flight at a time, no
\* two rows of the status table have the same (sha, pullRequestId), and as
\* long as a refresh has not written the status rows of the rows it
\* created, no status row of an earlier cycle is found for them: their
\* status in the view is absent.
C20_OneRowPerKey ==
  /\ \A i \in 1..Len(pullRequestStatus) :
       \A j \in 1..Len(pullRequestStatus) :
         ( /\ pullRequestStatus[i].sha = pullRequestStatus[j].sha
           /\ pullRequestStatus[i].pullRequestId
                = pullRequestStatus[j].pullRequestId ) => i = j
  /\ \A p \in Procs : StatusPending(p) =>
       \A r \in pullRequests :
         /\ NeverRecorded(r.head.sha, r.id)
         /\ builtPR(r).status = NULL

\* The same pull request, with the same head sha, was refreshed twice: the
\* table holds the status row of each cycle under its own id, and the
\* second refresh, when it had replaced the row, found no status for it.
C20_Witness ==
  /\ Len(pullRequestStatus) = 2
  /\ pullRequestStatus[1].sha = pullRequestStatus[2].sha
  /\ pullRequestStatus[1].pullRequestId # pullRequestStatus[2].pullRequestId
  /\ \E p \in Procs :
       /\ Refreshed(p)
       /\ cycle[p].statusBefore = << pullRequestStatus[1] >>
       /\ Len(returned[p]) = 1
       /\ returned[p][1].id = pullRequestStatus[2].pullRequestId

====
